---- MODULE Spec2Model ----
(***************************************************************************)
(* A model of the syntax crate: the hand-written lexer (lexer.rs) and the  *)
(* recursive-descent expression parser (parser.rs).                        *)
(*                                                                         *)
(* A source text is a sequence of characters.  A character is a one-       *)
(* character string; a character outside ASCII is named by its code point  *)
(* ("U+00E9") and occupies Width(c) bytes, so that byte offsets (what a    *)
(* span holds) and character indices (what the iterator counts) differ as  *)
(* they do in a Rust &str.  A string value (an identifier, the text of an  *)
(* error) is a sequence of characters too.                                 *)
(***************************************************************************)
EXTENDS Integers, Sequences, FiniteSets, TLC

VARIABLES
    input,        \* Lexer.source / Lexer.chars: the characters of the source text
    idx,          \* Lexer.chars: how many characters the iterator has yielded
    current_pos,  \* Lexer.current_pos: byte offset of the last character yielded
    tokens,       \* tokenize's local `tokens`
    errors,       \* tokenize's local `errors`
    pc,           \* where tokenize is: "scan" (in the loop), "done", "panic"
    result,       \* what tokenize returned, once pc = "done"
    p_tokens,     \* Parser.tokens
    pos,          \* Parser.pos
    len,          \* Parser.len
    p_result      \* what the last call on the parser returned

vars == <<input, idx, current_pos, tokens, errors, pc, result,
          p_tokens, pos, len, p_result>>

lexvars == <<input, idx, current_pos, tokens, errors, pc, result>>
parvars == <<p_tokens, pos, len, p_result>>

---------------------------------------------------------------------------
(* Characters *)

AsciiLower == {"a","b","c","d","e","f","g","h","i","j","k","l","m",
               "n","o","p","q","r","s","t","u","v","w","x","y","z"}
AsciiUpper == {"A","B","C","D","E","F","G","H","I","J","K","L","M",
               "N","O","P","Q","R","S","T","U","V","W","X","Y","Z"}
AsciiDigit == {"0","1","2","3","4","5","6","7","8","9"}

\* U+00E9 (e acute) is alphabetic and two bytes long in UTF-8; U+00A0 (no-break
\* space) has the White_Space property and is two bytes long.
UnicodeAlpha == {"U+00E9"}
UnicodeSpace == {"U+00A0"}

Width(c) == IF c \in UnicodeAlpha \cup UnicodeSpace THEN 2 ELSE 1

IsWhitespace(c) == c \in {" ", "\t", "\n", "\r", "\f"} \cup UnicodeSpace

IsAlphanumeric(c) ==
    c \in AsciiLower \cup AsciiUpper \cup AsciiDigit \cup UnicodeAlpha

DigitValue(c) ==
    CASE c = "0" -> 0 [] c = "1" -> 1 [] c = "2" -> 2 [] c = "3" -> 3
      [] c = "4" -> 4 [] c = "5" -> 5 [] c = "6" -> 6 [] c = "7" -> 7
      [] c = "8" -> 8 [] c = "9" -> 9

---------------------------------------------------------------------------
(* Byte offsets in a &str *)

RECURSIVE Off(_, _)
\* Byte offset of the i-th character (1-based) of inp; Off(inp, Len(inp)+1) is
\* the byte length.
Off(inp, i) == IF i <= 1 THEN 0 ELSE Off(inp, i - 1) + Width(inp[i - 1])

ByteLen(inp) == Off(inp, Len(inp) + 1)

IsCharBoundary(inp, o) == \E i \in 1..(Len(inp) + 1) : Off(inp, i) = o

\* &source[a..b]: panics unless a <= b and both are character boundaries.
SliceOk(inp, a, b) == a <= b /\ IsCharBoundary(inp, a) /\ IsCharBoundary(inp, b)

Slice(inp, a, b) ==
    LET first == CHOOSE i \in 1..(Len(inp) + 1) : Off(inp, i) = a
        last  == CHOOSE i \in 1..(Len(inp) + 1) : Off(inp, i) = b
    IN  SubSeq(inp, first, last - 1)

---------------------------------------------------------------------------
(* Spans and tokens *)

Span(s, e) == [start |-> s, end |-> e]

merge(a, b) ==
    [start |-> IF a.start <= b.start THEN a.start ELSE b.start,
     end   |-> IF a.end >= b.end THEN a.end ELSE b.end]

\* A token without payload, and the five with one.
Tok(k)       == [kind |-> k, val |-> <<>>]
TokInt(n)    == [kind |-> "Int", val |-> n]
TokReal(x)   == [kind |-> "Real", val |-> x]
TokBool(b)   == [kind |-> "Bool", val |-> b]
TokChar(c)   == [kind |-> "Char", val |-> c]
TokIdent(s)  == [kind |-> "Ident", val |-> s]

LexErr(k)       == [kind |-> k, val |-> <<>>]
LexErrWith(k, v) == [kind |-> k, val |-> v]

Spanned(v, sp) == [inner |-> v, span |-> sp]

---------------------------------------------------------------------------
(* str::parse::<usize> and str::parse::<f64>, as the standard library     *)
(* defines them on the strings the lexer hands over                        *)

AllDigits(s) == \A i \in 1..Len(s) : s[i] \in AsciiDigit

RECURSIVE DigitsValue(_)
DigitsValue(s) ==
    IF s = <<>> THEN 0
    ELSE 10 * DigitsValue(SubSeq(s, 1, Len(s) - 1)) + DigitValue(s[Len(s)])

None == [some |-> FALSE, v |-> 0]
Some(x) == [some |-> TRUE, v |-> x]

\* usize::from_str: an optional '+', then one or more decimal digits; no
\* whitespace, no '-'.  (A value above usize::MAX is an error as well; a
\* numeral of the lengths explored here has fewer than ten digits.)
ParseUsize(s) ==
    LET body == IF s # <<>> /\ s[1] = "+" THEN Tail(s) ELSE s
    IN  IF body # <<>> /\ AllDigits(body) THEN Some(DigitsValue(body)) ELSE None

\* The largest decimal exponent of a finite f64 (f64::MAX is
\* 1.7976931348623157e308), and the least power of ten above 2^-1074, the
\* spacing of the subnormal f64s (4.94e-324).
F64MaxExp10 == 308
F64MinExp10 == -323

RECURSIVE NumDigits(_)
NumDigits(n) == IF n < 10 THEN 1 ELSE 1 + NumDigits(n \div 10)

RECURSIVE Canon(_, _)
\* m * 10^k with the trailing zeros of m moved into k.
Canon(m, k) ==
    IF m = 0 THEN [mant |-> 0, exp |-> 0]
    ELSE IF m % 10 = 0 THEN Canon(m \div 10, k + 1)
    ELSE [mant |-> m, exp |-> k]

RECURSIVE Pow10(_)
Pow10(j) == IF j = 0 THEN 1 ELSE 10 * Pow10(j - 1)

\* Long naturals, as sequences of limbs of four decimal digits, the least
\* significant limb first.
Limb == 10000

\* 2^1074: an f64 below 2^-1022 is a multiple of 2^-1074.
TwoPow1074 ==
    <<
      4784, 9349, 7410, 7707, 6330, 62, 8646, 2750, 1863, 2532, 3050, 6152,
      3414, 5233, 7695, 2358, 5651, 8100, 6340, 5955, 6491, 3355, 1810, 6986,
      4692, 8342, 74, 8562, 4506, 4727, 7678, 3976, 3412, 3216, 4209, 9077,
      4466, 6136, 5663, 4276, 1742, 9215, 8509, 4073, 3999, 7013, 7686, 7934,
      7385, 873, 3898, 1911, 1681, 8643, 7077, 9518, 1244, 1437, 8370, 9603,
      6891, 9534, 5679, 339, 2743, 3580, 6901, 1835, 1421, 9764, 5664, 495,
      7307, 1891, 3467, 2495, 1835, 3106, 3307, 225, 2024>>

RECURSIVE MulLimb(_, _, _, _)
\* a * b + carry from the i-th limb of a on, for b < Limb.
MulLimb(a, b, i, carry) ==
    IF i > Len(a) THEN (IF carry = 0 THEN <<>> ELSE <<carry>>)
    ELSE <<(a[i] * b + carry) % Limb>>
             \o MulLimb(a, b, i + 1, (a[i] * b + carry) \div Limb)

RECURSIVE AddLimbs(_, _, _, _)
\* a + b + carry from the i-th limbs on.
AddLimbs(a, b, i, carry) ==
    IF i > Len(a) /\ i > Len(b) THEN (IF carry = 0 THEN <<>> ELSE <<carry>>)
    ELSE <<((IF i <= Len(a) THEN a[i] ELSE 0) + (IF i <= Len(b) THEN b[i] ELSE 0)
                + carry) % Limb>>
             \o AddLimbs(a, b, i + 1,
                         ((IF i <= Len(a) THEN a[i] ELSE 0)
                              + (IF i <= Len(b) THEN b[i] ELSE 0) + carry) \div Limb)

\* a * d for a machine integer d >= 0.
MulInt(a, d) ==
    AddLimbs(MulLimb(a, d % Limb, 1, 0),
             AddLimbs(<<0>> \o MulLimb(a, (d \div Limb) % Limb, 1, 0),
                      <<0, 0>> \o MulLimb(a, d \div (Limb * Limb), 1, 0), 1, 0),
             1, 0)

\* The decimal digit of weight 10^i of a.
DigitAt(a, i) ==
    IF i < 0 \/ i \div 4 + 1 > Len(a) THEN 0
    ELSE (a[i \div 4 + 1] \div Pow10(i % 4)) % 10

RECURSIVE FloorFrom(_, _, _)
\* floor(a / 10^s), read from the digit of weight 10^i down to that of 10^s.
FloorFrom(a, s, i) ==
    IF i < s THEN 0
    ELSE DigitAt(a, i) * Pow10(i - s) + FloorFrom(a, s, i - 1)

\* floor(a / 10^s) when it has nine digits or fewer, and 10^9 otherwise.
FloorDiv10(a, s) ==
    IF \E i \in (s + 9)..(4 * Len(a) - 1) : DigitAt(a, i) # 0 THEN Pow10(9)
    ELSE FloorFrom(a, s, s + 8)

\* d * 10^q * 2^1074 (q < 0) as a long natural to be divided by 10^-q.
Scaled(d) == MulInt(TwoPow1074, d)

\* The multiple of 2^-1074 nearest to d * 10^q: round(d * 10^q * 2^1074).
\* (No tie arises: d * 2^1074 is not a multiple of 5^323.)
SubnormalCount(d, q) ==
    FloorDiv10(Scaled(d), 0 - q)
        + (IF DigitAt(Scaled(d), 0 - q - 1) >= 5 THEN 1 ELSE 0)

\* The numerals d * 10^q, d near m * 10^k, that read back as n * 2^-1074.
ReadBack(n, m, k, q) ==
    LET d0 == IF q - k > 9 THEN 0 ELSE m \div Pow10(q - k)
    IN  {d \in {d0 + j : j \in -4..(IF d0 > 2147483642 THEN 2147483647 - d0 ELSE 5)} :
            d > 0 /\ SubnormalCount(d, q) = n}

\* Of those, the one nearest to n * 2^-1074: the greatest below it (a) or the
\* least above it (b), b when a * 10^q + b * 10^q < 2 * n * 2^-1074.
Nearest(n, q, ds) ==
    LET below == {d \in ds : FloorDiv10(Scaled(d), 0 - q) < n}
        above == ds \ below
        a     == CHOOSE d \in below : \A o \in below : o <= d
        b     == CHOOSE d \in above : \A o \in above : d <= o
    IN  IF above = {} THEN a
        ELSE IF below = {} THEN b
        ELSE IF FloorDiv10(AddLimbs(Scaled(a), Scaled(b), 1, 0), 0 - q) >= 2 * n
             THEN a ELSE b

RECURSIVE Shortest(_, _, _, _)
\* The shortest numeral that reads back as n * 2^-1074, the f64 nearest to
\* m * 10^k: tried on the grid of 10^q, from coarse to fine.
Shortest(n, m, k, q) ==
    IF ReadBack(n, m, k, q) # {}
    THEN Canon(Nearest(n, q, ReadBack(n, m, k, q)), q)
    ELSE Shortest(n, m, k, q - 1)

\* m * 10^k with a mantissa normalised to nine digits is above the midpoint
\* between f64::MAX and 2^1024, 1.797693134862315807...e308: it rounds to
\* infinity.
Overflows(m, k) ==
    LET e10 == k + NumDigits(m) - 1
        m9  == IF NumDigits(m) <= 9 THEN m * Pow10(9 - NumDigits(m)) ELSE m \div 10
        r   == IF NumDigits(m) <= 9 THEN 0 ELSE m % 10
    IN  \/ e10 > F64MaxExp10
        \/ /\ e10 = F64MaxExp10
           /\ (m9 > 179769313 \/ (m9 = 179769313 /\ r >= 5))

\* The f64 nearest to sign * m * 10^k, as the shortest numeral that reads
\* back as that f64 (so that two numerals have the same value exactly when
\* they denote the same f64): infinite above f64::MAX; the numeral itself
\* when it is a multiple of 10^-323 (no two of these, of ten digits or
\* fewer, share an f64); below that the nearest multiple of 2^-1074, zero
\* included (0.0 = -0.0).
F64(neg, m, k) ==
    LET c    == Canon(m, k)
        zero == [cls |-> "finite", neg |-> FALSE, mant |-> 0, exp |-> 0]
    IN  IF c.mant = 0 THEN zero
        ELSE IF Overflows(c.mant, c.exp)
            THEN [cls |-> "inf", neg |-> neg, mant |-> 0, exp |-> 0]
        ELSE IF c.exp >= F64MinExp10
            THEN [cls |-> "finite", neg |-> neg, mant |-> c.mant, exp |-> c.exp]
        ELSE IF c.exp + NumDigits(c.mant) < F64MinExp10 - 1
            THEN zero
        ELSE LET n == SubnormalCount(c.mant, c.exp)
                 s == Shortest(n, c.mant, c.exp, c.exp + NumDigits(c.mant))
             IN  IF n = 0 THEN zero
                 ELSE [cls |-> "finite", neg |-> neg, mant |-> s.mant, exp |-> s.exp]

IndexOf(s, set) ==
    IF \E i \in 1..Len(s) : s[i] \in set
    THEN CHOOSE i \in 1..Len(s) : s[i] \in set /\ \A j \in 1..(i - 1) : s[j] \notin set
    ELSE 0

\* f64::from_str on a decimal numeral: [+-]? (digits ('.' digits?)? | '.' digits)
\* ([eE] [+-]? digits)?, the whole string, no whitespace.  (The words inf,
\* infinity and nan are accepted too; no slice the lexer takes spells them.)
ParseF64(s) ==
    LET signed == s # <<>> /\ s[1] \in {"+", "-"}
        neg    == s # <<>> /\ s[1] = "-"
        body   == IF signed THEN Tail(s) ELSE s
        ePos   == IndexOf(body, {"e", "E"})
        mantS  == IF ePos = 0 THEN body ELSE SubSeq(body, 1, ePos - 1)
        expS   == IF ePos = 0 THEN <<>> ELSE SubSeq(body, ePos + 1, Len(body))
        eSigned == expS # <<>> /\ expS[1] \in {"+", "-"}
        eNeg   == expS # <<>> /\ expS[1] = "-"
        eDigs  == IF eSigned THEN Tail(expS) ELSE expS
        dPos   == IndexOf(mantS, {"."})
        intS   == IF dPos = 0 THEN mantS ELSE SubSeq(mantS, 1, dPos - 1)
        fracS  == IF dPos = 0 THEN <<>> ELSE SubSeq(mantS, dPos + 1, Len(mantS))
        okMant == AllDigits(intS) /\ AllDigits(fracS) /\ Len(intS) + Len(fracS) > 0
        okExp  == ePos = 0 \/ (eDigs # <<>> /\ AllDigits(eDigs))
        e      == IF ePos = 0 THEN 0
                  ELSE IF eNeg THEN 0 - DigitsValue(eDigs) ELSE DigitsValue(eDigs)
    IN  IF okMant /\ okExp
        THEN Some(F64(neg, DigitsValue(intS \o fracS), e - Len(fracS)))
        ELSE None

---------------------------------------------------------------------------
(* The lexer.  A lexer state st is [idx, cur]: the characters yielded so    *)
(* far and current_pos.  A lex_* operator returns [st, tag, val]: the state *)
(* it leaves, and Ok(token) / Err(error) / a panic.                         *)

NoChar == [some |-> FALSE, off |-> 0, ch |-> ""]

\* Lexer::peek: the next (offset, char) of the iterator, not consumed.
peek(inp, st) ==
    IF st.idx < Len(inp)
    THEN [some |-> TRUE, off |-> Off(inp, st.idx + 1), ch |-> inp[st.idx + 1]]
    ELSE NoChar

\* Lexer::peek_char as a test: the next character is one of `set`.
PeekIs(inp, st, set) == st.idx < Len(inp) /\ inp[st.idx + 1] \in set

\* Lexer::next_char: yields the next character and records its offset in
\* current_pos; at the end of the text it changes nothing.
next_char(inp, st) ==
    IF st.idx < Len(inp)
    THEN [idx |-> st.idx + 1, cur |-> Off(inp, st.idx + 1)]
    ELSE st

RECURSIVE skip_whitespace(_, _)
skip_whitespace(inp, st) ==
    IF st.idx < Len(inp) /\ IsWhitespace(inp[st.idx + 1])
    THEN skip_whitespace(inp, next_char(inp, st))
    ELSE st

LexOk(st, tok) == [st |-> st, tag |-> "ok", val |-> tok]
LexFail(st, err) == [st |-> st, tag |-> "err", val |-> err]
LexPanic(st) == [st |-> st, tag |-> "panic", val |-> <<>>]

lex_colon(inp, st) ==
    LET s1 == next_char(inp, st)
    IN  IF PeekIs(inp, s1, {":"}) THEN LexOk(next_char(inp, s1), Tok("Cons"))
        ELSE IF PeekIs(inp, s1, {"="}) THEN LexOk(next_char(inp, s1), Tok("ColonEq"))
        ELSE LexOk(s1, Tok("Colon"))

lex_less(inp, st) ==
    LET s1 == next_char(inp, st)
    IN  IF PeekIs(inp, s1, {">"}) THEN LexOk(next_char(inp, s1), Tok("NotEq"))
        ELSE IF PeekIs(inp, s1, {"="}) THEN LexOk(next_char(inp, s1), Tok("LessEq"))
        ELSE LexOk(s1, Tok("Less"))

lex_gt(inp, st) ==
    LET s1 == next_char(inp, st)
    IN  IF PeekIs(inp, s1, {"="}) THEN LexOk(next_char(inp, s1), Tok("GtEq"))
        ELSE LexOk(s1, Tok("Gt"))

lex_and(inp, st) ==
    LET s1 == next_char(inp, st)
    IN  IF PeekIs(inp, s1, {"&"}) THEN LexOk(next_char(inp, s1), Tok("AndAnd"))
        ELSE LexOk(s1, Tok("And"))

lex_or(inp, st) ==
    LET s1 == next_char(inp, st)
    IN  IF PeekIs(inp, s1, {"|"}) THEN LexOk(next_char(inp, s1), Tok("Or"))
        ELSE LexFail(s1, LexErr("InvalidToken"))

\* The character an escape letter denotes (lex_char_literal's match on esc).
EscapeChars == {"'", "\"", "\\", "n", "r", "t", "0"}

EscapeValue(esc) ==
    CASE esc = "'" -> "'" [] esc = "\"" -> "\"" [] esc = "\\" -> "\\"
      [] esc = "n" -> "\n" [] esc = "r" -> "\r" [] esc = "t" -> "\t"
      [] esc = "0" -> "U+0000"

\* A faulty variant: the closing quote is checked but not consumed.
CharLiteralCloseUnconsumed(inp, st, c) ==
    IF st.idx >= Len(inp) THEN LexFail(st, LexErr("UnterminatedChar"))
    ELSE IF inp[st.idx + 1] = "'" THEN LexOk(st, TokChar(c))
    ELSE LexFail(next_char(inp, st), LexErr("MultiChar"))

\* The closing-quote check that ends lex_char_literal.
CharLiteralClose(inp, st, c) ==
    IF st.idx >= Len(inp) THEN LexFail(st, LexErr("UnterminatedChar"))
    ELSE IF inp[st.idx + 1] = "'" THEN LexOk(next_char(inp, st), TokChar(c))
    ELSE LexFail(next_char(inp, st), LexErr("MultiChar"))

lex_char_literal(inp, st) ==
    LET s1 == next_char(inp, st)          \* the opening quote
    IN  IF s1.idx >= Len(inp) THEN LexFail(s1, LexErr("UnterminatedChar"))
        ELSE
        LET c  == inp[s1.idx + 1]
            s2 == next_char(inp, s1)
        IN  IF c = "\\" THEN
                IF s2.idx >= Len(inp) THEN LexFail(s2, LexErr("UnterminatedChar"))
                ELSE
                LET esc == inp[s2.idx + 1]
                    s3  == next_char(inp, s2)
                IN  IF esc \in EscapeChars
                    THEN CharLiteralClose(inp, s3, EscapeValue(esc))
                    ELSE LexFail(s3, LexErrWith("UnknownEscape", esc))
            ELSE IF c = "'" THEN LexFail(s2, LexErr("EmptyChar"))
            ELSE CharLiteralClose(inp, s2, c)

RECURSIVE NumberLoop(_, _, _, _)
\* lex_number's while loop; returns [st, has_dot, has_exponent].
NumberLoop(inp, st, has_dot, has_exponent) ==
    IF st.idx >= Len(inp)
    THEN [st |-> st, has_dot |-> has_dot, has_exponent |-> has_exponent]
    ELSE
    LET c == inp[st.idx + 1]
    IN  IF c = "." /\ ~has_dot /\ ~has_exponent
            THEN NumberLoop(inp, next_char(inp, st), TRUE, has_exponent)
        ELSE IF c \in AsciiDigit
            THEN NumberLoop(inp, next_char(inp, st), has_dot, has_exponent)
        ELSE IF c \in {"e", "E"} /\ ~has_exponent
            THEN LET s1 == next_char(inp, st)
                     s2 == IF PeekIs(inp, s1, {"+", "-"}) THEN next_char(inp, s1) ELSE s1
                 IN  NumberLoop(inp, s2, TRUE, TRUE)
        ELSE [st |-> st, has_dot |-> has_dot, has_exponent |-> has_exponent]

\* Where lex_number and lex_ident take the lexeme to start: current_pos, the
\* offset of the last character yielded before the lexeme's first one.
LexemeStart(st) == st.cur

lex_number(inp, st) ==
    LET start_pos == LexemeStart(st)
        l         == NumberLoop(inp, st, FALSE, FALSE)
        end_pos   == l.st.cur + 1
    IN  IF ~SliceOk(inp, start_pos, end_pos) THEN LexPanic(l.st)
        ELSE
        LET num_str == Slice(inp, start_pos, end_pos)
        IN  IF l.has_dot \/ l.has_exponent
            THEN LET r == ParseF64(num_str)
                 IN  IF r.some THEN LexOk(l.st, TokReal(r.v))
                     ELSE LexFail(l.st, LexErrWith("InvalidFloat", num_str))
            ELSE LET r == ParseUsize(num_str)
                 IN  IF r.some THEN LexOk(l.st, TokInt(r.v))
                     ELSE LexFail(l.st, LexErrWith("InvalidInt", num_str))

RECURSIVE IdentLoop(_, _)
\* lex_ident's while loop.
IdentLoop(inp, st) ==
    IF st.idx < Len(inp) /\ (IsAlphanumeric(inp[st.idx + 1]) \/ inp[st.idx + 1] = "_")
    THEN IdentLoop(inp, next_char(inp, st))
    ELSE st

\* The keyword table of classify_ident.
classify_ident(ident) ==
    CASE ident = <<"f","u","n">> -> Tok("KwFun")
      [] ident = <<"i","n","t">> -> Tok("KwInt")
      [] ident = <<"b","o","o","l">> -> Tok("KwBool")
      [] ident = <<"r","e","a","l">> -> Tok("KwReal")
      [] ident = <<"c","h","a","r">> -> Tok("KwChar")
      [] ident = <<"u","n","i","t">> -> Tok("KwUnit")
      [] ident = <<"t","r","u","e">> -> TokBool(TRUE)
      [] ident = <<"f","a","l","s","e">> -> TokBool(FALSE)
      [] ident = <<"v","a","l">> -> Tok("KwVal")
      [] ident = <<"l","e","t">> -> Tok("KwLet")
      [] ident = <<"i","n">> -> Tok("KwIn")
      [] ident = <<"e","n","d">> -> Tok("KwEnd")
      [] ident = <<"i","f">> -> Tok("KwIf")
      [] ident = <<"t","h","e","n">> -> Tok("KwThen")
      [] ident = <<"e","l","s","e">> -> Tok("KwElse")
      [] ident = <<"n","o","t">> -> Tok("KwNot")
      [] ident = <<"m","u","t">> -> Tok("KwMut")
      [] ident = <<"d","o">> -> Tok("KwDo")
      [] ident = <<"w","h","i","l","e">> -> Tok("KwWhile")
      [] ident = <<"m","o","d">> -> Tok("KwMod")
      [] ident = <<"d","i","v">> -> Tok("KwDiv")
      [] OTHER -> TokIdent(ident)

lex_ident(inp, st) ==
    LET start_pos == LexemeStart(st)
        s1        == IdentLoop(inp, st)
        end_pos   == s1.cur + 1
    IN  IF ~SliceOk(inp, start_pos, end_pos) THEN LexPanic(s1)
        ELSE LexOk(s1, classify_ident(Slice(inp, start_pos, end_pos)))

SingleCharToken(c) ==
    CASE c = "," -> Tok("Comma") [] c = "~" -> Tok("Tilde")
      [] c = "(" -> Tok("LParen") [] c = ")" -> Tok("RParen")
      [] c = "=" -> Tok("Eq") [] c = "+" -> Tok("Plus")
      [] c = "-" -> Tok("Minus") [] c = "*" -> Tok("Star")

\* The `match c` of tokenize's loop, entered with the next character c
\* peeked and not yet consumed.
LexOne(inp, st) ==
    LET c == inp[st.idx + 1]
    IN  CASE c \in {",", "~", "(", ")", "=", "+", "-", "*"}
                -> LexOk(next_char(inp, st), SingleCharToken(c))
          [] c = ":" -> lex_colon(inp, st)
          [] c = "<" -> lex_less(inp, st)
          [] c = ">" -> lex_gt(inp, st)
          [] c = "&" -> lex_and(inp, st)
          [] c = "|" -> lex_or(inp, st)
          [] c = "'" -> lex_char_literal(inp, st)
          [] c \in AsciiDigit -> lex_number(inp, st)
          [] c = "." ->
                IF st.idx + 2 <= Len(inp) /\ inp[st.idx + 2] \in AsciiDigit
                THEN lex_number(inp, st)
                ELSE LexFail(next_char(inp, st), LexErr("InvalidToken"))
          [] c \in AsciiLower \cup AsciiUpper \cup {"_"} -> lex_ident(inp, st)
          [] OTHER -> LexFail(next_char(inp, st), LexErr("InvalidToken"))

---------------------------------------------------------------------------
(* Lexer::tokenize as a state machine: one action per iteration of its    *)
(* loop, one for what follows the loop                                     *)

NoResult == [tag |-> "none", val |-> <<>>]

\* Lexer::new: nothing yielded yet, current_pos = 0.
LexerNew(inp) ==
    /\ input = inp
    /\ idx = 0
    /\ current_pos = 0
    /\ tokens = <<>>
    /\ errors = <<>>
    /\ pc = "scan"
    /\ result = NoResult

\* The loop may stop only at the end of the text.
LoopMayStop(inp, st) == st.idx >= Len(inp)

\* One iteration of the loop: skip whitespace, peek the start, lex one
\* token, push it or its error with the span start..current_pos + 1.
TokenizeStep ==
    /\ pc = "scan"
    /\ LET s0 == skip_whitespace(input, [idx |-> idx, cur |-> current_pos])
       IN  /\ ~LoopMayStop(input, s0)
           /\ LET start == peek(input, s0).off
                  r     == LexOne(input, s0)
                  end   == r.st.cur + 1
                  span  == Span(start, end)
              IN  /\ idx' = r.st.idx
                  /\ current_pos' = r.st.cur
                  /\ tokens' = IF r.tag = "ok"
                               THEN Append(tokens, Spanned(r.val, span)) ELSE tokens
                  /\ errors' = IF r.tag = "err"
                               THEN Append(errors, Spanned(r.val, span)) ELSE errors
                  /\ pc' = IF r.tag = "panic" THEN "panic" ELSE "scan"
    /\ UNCHANGED <<input, result, parvars>>

\* A faulty variant: Eof placed at the number of characters, not of bytes.
EofPosInChars(inp) == Len(inp)

\* Where tokenize puts the Eof token: at source.len().
EofPos(inp) == ByteLen(inp)

\* The loop's exit (the last skip_whitespace finds no character), the Eof
\* token and the return value.
TokenizeFinish ==
    /\ pc = "scan"
    /\ LET s0 == skip_whitespace(input, [idx |-> idx, cur |-> current_pos])
       IN  /\ LoopMayStop(input, s0)
           /\ idx' = s0.idx
           /\ current_pos' = s0.cur
           /\ LET eof_pos == EofPos(input)
                  all     == Append(tokens, Spanned(Tok("Eof"), Span(eof_pos, eof_pos)))
              IN  /\ tokens' = all
                  /\ result' = IF errors = <<>>
                               THEN [tag |-> "Ok", val |-> all]
                               ELSE [tag |-> "Err", val |-> errors]
    /\ pc' = "done"
    /\ UNCHANGED <<input, errors, parvars>>

---------------------------------------------------------------------------
(* Lexer::tokenize as a function of the text: what a call returns, for the *)
(* callers that hand its tokens on to Parser::new                          *)

RECURSIVE TokenizeLoop(_, _, _, _)

\* After the loop: the Eof token and the return value.
TokenizeReturn(inp, toks, errs) ==
    IF errs = <<>>
    THEN [tag |-> "Ok",
          val |-> Append(toks, Spanned(Tok("Eof"), Span(EofPos(inp), EofPos(inp))))]
    ELSE [tag |-> "Err", val |-> errs]

\* The end of an iteration: r, what the match gave, is pushed with the span
\* start..current_pos + 1 (a panic ends the call).
TokenizePush(inp, start, r, toks, errs) ==
    IF r.tag = "panic" THEN [tag |-> "Panic", val |-> <<>>]
    ELSE TokenizeLoop(inp, r.st,
             IF r.tag = "ok"
             THEN Append(toks, Spanned(r.val, Span(start, r.st.cur + 1))) ELSE toks,
             IF r.tag = "err"
             THEN Append(errs, Spanned(r.val, Span(start, r.st.cur + 1))) ELSE errs)

\* An iteration, whitespace skipped: leave the loop at the end of the text,
\* or peek the start and lex one token.
TokenizeScan(inp, s0, toks, errs) ==
    IF LoopMayStop(inp, s0) THEN TokenizeReturn(inp, toks, errs)
    ELSE TokenizePush(inp, peek(inp, s0).off, LexOne(inp, s0), toks, errs)

TokenizeLoop(inp, st, toks, errs) ==
    TokenizeScan(inp, skip_whitespace(inp, st), toks, errs)

tokenize(inp) == TokenizeLoop(inp, [idx |-> 0, cur |-> 0], <<>>, <<>>)

NoCall == [call |-> "none", at |-> 0, tag |-> "none", val |-> <<>>]

ParserIdle ==
    /\ p_tokens = <<>>
    /\ pos = 0
    /\ len = 0
    /\ p_result = NoCall

---------------------------------------------------------------------------
(* Source texts *)

SeqsUpTo(S, n) == UNION {[1..k -> S] : k \in 0..n}

RECURSIVE Flatten(_)
Flatten(ss) == IF ss = <<>> THEN <<>> ELSE Head(ss) \o Flatten(Tail(ss))

\* The texts made of at most n pieces, each piece one of `frags`.
Texts(frags, n) == {Flatten(ss) : ss \in SeqsUpTo(frags, n)}

\* Every text of at most MaxLen characters over Alphabet: punctuation,
\* a letter, digits, a quote, whitespace, an invalid character and a
\* two-byte letter.
MaxLen == 4
Alphabet == {<<" ">>, <<"a">>, <<"1">>, <<".">>, <<"'">>, <<"|">>, <<"-">>,
             <<"#">>, <<"U+00E9">>}

Init ==
    /\ \E inp \in Texts(Alphabet, MaxLen) : LexerNew(inp)
    /\ ParserIdle

Next == TokenizeStep \/ TokenizeFinish

Spec == Init /\ [][Next]_vars

\* Texts of at most MaxWords pieces: reserved words, an identifier, number
\* literals of each form, a space, punctuation.
MaxWords == 3
WordPieces == {<<"i","f">>, <<"f","u","n">>, <<"t","r","u","e">>, <<"x">>,
               <<"4","2">>, <<"3",".","1","4">>, <<".","5">>,
               <<"1","e","1","0">>, <<"2",".","5","e","-","3">>,
               <<" ">>, <<"(">>, <<"+">>}

InitWords ==
    /\ \E inp \in Texts(WordPieces, MaxWords) : LexerNew(inp)
    /\ ParserIdle

SpecWords == InitWords /\ [][Next]_vars

\* Texts of at most MaxLits pieces: character literals, well-formed and not,
\* a space, and loose characters.
MaxLits == 3
LitPieces == {<<"'","a","'">>, <<"'","\\","n","'">>, <<"'","\\","'","'">>,
              <<"'","\\","\\","'">>, <<"'","U+00E9","'">>, <<"'"," ","'">>,
              <<"'","a","b","'">>, <<"'","\\","q","'">>,
              <<" ">>, <<"'">>, <<"a">>}

InitChars ==
    /\ \E inp \in Texts(LitPieces, MaxLits) : LexerNew(inp)
    /\ ParserIdle

SpecChars == InitChars /\ [][Next]_vars

---------------------------------------------------------------------------
(* Properties of the lexer *)

Returned == pc = "done"
ReturnedOk == pc = "done" /\ result.tag = "Ok"

RECURSIVE SumWidths(_)
\* The byte length of a text, character by character.
SumWidths(inp) == IF inp = <<>> THEN 0 ELSE Width(Head(inp)) + SumWidths(Tail(inp))

\* C1: whenever tokenize returns Ok(tokens), the start offsets of the tokens
\* are non-decreasing in vector order, exactly one token is Eof, it is the
\* last one, and its span is [len, len) with len the byte length of the
\* text; a text of whitespace only (or empty) yields just the Eof.
OkTokensOrderedEndingInEof ==
    ReturnedOk =>
        LET ts == result.val
            n  == Len(ts)
            bl == SumWidths(input)
        IN  /\ n >= 1
            /\ \A i, j \in 1..n : i < j => ts[i].span.start <= ts[j].span.start
            /\ Cardinality({i \in 1..n : ts[i].inner.kind = "Eof"}) = 1
            /\ ts[n].inner = Tok("Eof")
            /\ ts[n].span = Span(bl, bl)
            /\ (\A i \in 1..Len(input) : IsWhitespace(input[i])) => n = 1

\* A text holding a two-byte character, lexed to Ok with a token before
\* the Eof: byte offsets and character counts differ.
OkTokensWitness ==
    /\ ReturnedOk
    /\ Len(result.val) >= 2
    /\ \E i \in 1..Len(input) : Width(input[i]) = 2

\* Characters that start no token: where the loop meets one, it is a
\* lexical error of its own.
StrayChars == {"#", "U+00E9"}

\* C2: tokenize does not stop at the first lexical error.  Whatever the
\* text, the call scans it to its end and returns; it returns Err exactly
\* when an error was recorded, and then with all recorded errors, in source
\* order; otherwise Ok with all tokens.  In a text of stray characters,
\* digits, minus signs and whitespace, each of the k stray characters is one
\* InvalidToken error at its own offset, and there are k errors.
TokenizeCollectsEveryError ==
    /\ pc # "panic"
    /\ Returned =>
        /\ idx = Len(input)
        /\ (result.tag = "Err") <=> (errors # <<>>)
        /\ result.tag = "Err" => result.val = errors
        /\ result.tag = "Ok" => result.val = tokens
        /\ \A i, j \in 1..Len(errors) :
               i < j => errors[i].span.start < errors[j].span.start
        /\ (\A i \in 1..Len(input) :
                \/ input[i] \in StrayChars \cup AsciiDigit
                \/ input[i] = "-" \/ IsWhitespace(input[i]))
            => /\ Len(errors) =
                    Cardinality({i \in 1..Len(input) : input[i] \in StrayChars})
               /\ \A i \in 1..Len(input) : input[i] \in StrayChars =>
                    \E k \in 1..Len(errors) :
                        /\ errors[k].inner = LexErr("InvalidToken")
                        /\ errors[k].span.start = Off(input, i)

\* What holds of it: a call that returns has scanned the whole text and
\* returns every error it recorded, and a text of stray characters, minus
\* signs and whitespace alone (no number to take a neighbour in, no word to
\* end on a two-byte letter) gives one error for each stray character.
AllErrorsCollected ==
    Returned =>
        /\ idx = Len(input)
        /\ (result.tag = "Err") <=> (errors # <<>>)
        /\ result.tag = "Err" => result.val = errors
        /\ result.tag = "Ok" => result.val = tokens
        /\ \A i, j \in 1..Len(errors) :
               i < j => errors[i].span.start < errors[j].span.start
        /\ (\A i \in 1..Len(input) :
                input[i] \in StrayChars \/ input[i] = "-" \/ IsWhitespace(input[i]))
            => /\ Len(errors) =
                    Cardinality({i \in 1..Len(input) : input[i] \in StrayChars})
               /\ \A i \in 1..Len(input) : input[i] \in StrayChars =>
                    \E k \in 1..Len(errors) :
                        /\ errors[k].inner = LexErr("InvalidToken")
                        /\ errors[k].span.start = Off(input, i)

\* The words of a text: its maximal runs of non-whitespace characters, each
\* as the indices [first, last] of its characters.
RunEnd(inp, i) ==
    CHOOSE j \in i..Len(inp) :
        /\ \A k \in i..j : ~IsWhitespace(inp[k])
        /\ j = Len(inp) \/ IsWhitespace(inp[j + 1])

RECURSIVE WordsFrom(_, _)
WordsFrom(inp, i) ==
    IF i > Len(inp) THEN <<>>
    ELSE IF IsWhitespace(inp[i]) THEN WordsFrom(inp, i + 1)
    ELSE LET j == RunEnd(inp, i)
         IN  <<[first |-> i, last |-> j]>> \o WordsFrom(inp, j + 1)

Words(inp) == WordsFrom(inp, 1)
WordText(inp, w) == SubSeq(inp, w.first, w.last)
WordSpan(inp, w) == Span(Off(inp, w.first), Off(inp, w.last + 1))

\* The reserved words of the language (the Keywords row of the token table,
\* true and false among them).
ReservedWords ==
    {<<"f","u","n">>, <<"v","a","l">>, <<"l","e","t">>, <<"i","n">>,
     <<"e","n","d">>, <<"i","f">>, <<"t","h","e","n">>, <<"e","l","s","e">>,
     <<"n","o","t">>, <<"m","u","t">>, <<"w","h","i","l","e">>, <<"d","o">>,
     <<"m","o","d">>, <<"d","i","v">>, <<"i","n","t">>, <<"b","o","o","l">>,
     <<"r","e","a","l">>, <<"c","h","a","r">>, <<"u","n","i","t">>,
     <<"t","r","u","e">>, <<"f","a","l","s","e">>}

\* What may stand directly before or after a whole word: whitespace or a
\* one-character punctuation token.
WordDelims == {" ", "\t", "\n", "(", ")", ",", "=", "+", "-", "*", "~"}

WholeWordAt(inp, p, q) ==
    /\ 1 <= p /\ p <= q /\ q <= Len(inp)
    /\ p = 1 \/ inp[p - 1] \in WordDelims
    /\ q = Len(inp) \/ inp[q + 1] \in WordDelims

\* C3: every reserved word that occurs as a whole word of the text, at any
\* position (offset 0, after whitespace, directly after punctuation), is
\* tokenized as its keyword token, never as Ident; and a text of reserved
\* words separated by single spaces yields exactly the keyword tokens of
\* its words, in order, and then Eof.
ReservedWordsLexAsKeywords ==
    Returned =>
        /\ \A p, q \in 1..Len(input) :
               (WholeWordAt(input, p, q) /\ SubSeq(input, p, q) \in ReservedWords)
               => \E k \in 1..Len(tokens) :
                      /\ tokens[k].span.end = Off(input, q + 1)
                      /\ tokens[k].inner.kind # "Ident"
                      /\ tokens[k].inner = classify_ident(SubSeq(input, p, q))
        /\ LET ws == Words(input)
           IN  (/\ ws # <<>>
                /\ \A i \in 1..Len(ws) : WordText(input, ws[i]) \in ReservedWords
                /\ \A i \in 1..Len(input) : IsWhitespace(input[i]) =>
                       /\ input[i] = " "
                       /\ 1 < i /\ i < Len(input)
                       /\ ~IsWhitespace(input[i + 1]))
               => /\ result.tag = "Ok"
                  /\ Len(result.val) = Len(ws) + 1
                  /\ \A i \in 1..Len(ws) :
                         result.val[i].inner = classify_ident(WordText(input, ws[i]))
                  /\ result.val[Len(ws) + 1].inner = Tok("Eof")

NumberChars == AsciiDigit \cup {".", "e", "E", "+", "-"}

\* A well-formed number literal: digit+ ('.' digit*)? exponent?, or
\* '.' digit+ exponent?, with exponent = [eE] [+-]? digit+.
WellFormedNumber(w) ==
    /\ w # <<>>
    /\ \A i \in 1..Len(w) : w[i] \in NumberChars
    /\ w[1] \notin {"+", "-"}
    /\ ParseF64(w).some

\* The number token of a literal, from its own characters.
NumberToken(w) ==
    IF \E i \in 1..Len(w) : w[i] \in {".", "e", "E"}
    THEN TokReal(ParseF64(w).v)
    ELSE TokInt(DigitsValue(w))

\* C4: for a text made of well-formed number literals separated by
\* whitespace, tokenize returns Ok and the i-th token is the number token of
\* the i-th literal: Int when the literal has no '.', 'e' or 'E', Real
\* otherwise, its value parsed from exactly the characters of the literal,
\* which are those of the token's span.
NumberLiteralsLexFromOwnChars ==
    LET ws == Words(input)
    IN  (/\ Returned
         /\ ws # <<>>
         /\ \A i \in 1..Len(ws) : WellFormedNumber(WordText(input, ws[i])))
        => /\ result.tag = "Ok"
           /\ Len(result.val) = Len(ws) + 1
           /\ \A i \in 1..Len(ws) :
                  /\ result.val[i].inner = NumberToken(WordText(input, ws[i]))
                  /\ result.val[i].span = WordSpan(input, ws[i])

IdentStart == AsciiLower \cup AsciiUpper \cup {"_"}
IdentPart  == IdentStart \cup AsciiDigit

\* [a-zA-Z_][a-zA-Z0-9_]*
IsIdentText(s) ==
    /\ s # <<>>
    /\ s[1] \in IdentStart
    /\ \A i \in 2..Len(s) : s[i] \in IdentPart

\* C5: the text of every Ident token is non-empty, matches
\* [a-zA-Z_][a-zA-Z0-9_]*, and is exactly the substring of the input that
\* the token's own span delimits.
IdentTextIsItsSpan ==
    \A k \in 1..Len(tokens) :
        tokens[k].inner.kind = "Ident" =>
            /\ IsIdentText(tokens[k].inner.val)
            /\ SliceOk(input, tokens[k].span.start, tokens[k].span.end)
            /\ tokens[k].inner.val =
                   Slice(input, tokens[k].span.start, tokens[k].span.end)

\* A character literal with several scalars before its closing quote:
\* ' c1 .. cn ' with n >= 2 and no quote or backslash among the ci.
IsMultiCharLiteral(inp) ==
    /\ Len(inp) >= 4
    /\ inp[1] = "'" /\ inp[Len(inp)] = "'"
    /\ \A i \in 2..(Len(inp) - 1) : inp[i] \notin {"'", "\\"}

\* C6: a text that is one such literal (as 'ab') makes tokenize return
\* exactly one error, MultiChar, spanning the opening quote through the
\* closing quote, and no token comes from the characters of the literal.
MultiCharIsOneError ==
    (Returned /\ IsMultiCharLiteral(input)) =>
        /\ result.tag = "Err"
        /\ result.val = <<Spanned(LexErr("MultiChar"), Span(0, SumWidths(input)))>>
        /\ \A k \in 1..Len(tokens) : tokens[k].inner.kind = "Eof"

\* The character an escape denotes, per the language's definition of a
\* character literal.
Denoted(e) ==
    CASE e = "n" -> "\n" [] e = "r" -> "\r" [] e = "t" -> "\t"
      [] e = "0" -> "U+0000" [] e = "'" -> "'" [] e = "\"" -> "\""
      [] e = "\\" -> "\\"

\* The well-formed character literal that starts at character i, if one
\* does: [some, v: its character, next: the index after its closing quote].
CharLiteralAt(inp, i) ==
    IF i + 2 <= Len(inp) /\ inp[i] = "'" /\ inp[i + 1] \notin {"'", "\\"}
       /\ inp[i + 2] = "'"
        THEN [some |-> TRUE, v |-> inp[i + 1], next |-> i + 3]
    ELSE IF i + 3 <= Len(inp) /\ inp[i] = "'" /\ inp[i + 1] = "\\"
            /\ inp[i + 2] \in {"'", "\"", "\\", "n", "r", "t", "0"}
            /\ inp[i + 3] = "'"
        THEN [some |-> TRUE, v |-> Denoted(inp[i + 2]), next |-> i + 4]
    ELSE [some |-> FALSE, v |-> "", next |-> i]

RECURSIVE CharLiterals(_, _)
\* Reads inp from character i on as well-formed character literals
\* separated by whitespace: [ok, toks: the Char tokens they stand for].
CharLiterals(inp, i) ==
    IF i > Len(inp) THEN [ok |-> TRUE, toks |-> <<>>]
    ELSE IF IsWhitespace(inp[i]) THEN CharLiterals(inp, i + 1)
    ELSE LET l == CharLiteralAt(inp, i)
         IN  IF ~l.some \/ (l.next <= Len(inp) /\ ~IsWhitespace(inp[l.next]))
             THEN [ok |-> FALSE, toks |-> <<>>]
             ELSE LET rest == CharLiterals(inp, l.next)
                      tok  == Spanned(TokChar(l.v),
                                      Span(Off(inp, i), Off(inp, l.next)))
                  IN  [ok |-> rest.ok, toks |-> <<tok>> \o rest.toks]

\* C7: a whitespace-separated sequence of well-formed character literals
\* ('c', or an escape out of ' " \ n r t 0) lexes without error to the Char
\* tokens of the literals, in order, each holding the literal's character
\* and spanning its opening quote through its closing quote, then Eof.
CharLiteralsLexToChars ==
    LET ref == CharLiterals(input, 1)
    IN  (Returned /\ ref.ok) =>
            /\ result.tag = "Ok"
            /\ result.val =
                   ref.toks \o <<Spanned(Tok("Eof"),
                                         Span(SumWidths(input), SumWidths(input)))>>

\* Two literals were lexed, one of them an escape, one a two-byte character.
CharLiteralsWitness ==
    /\ ReturnedOk
    /\ CharLiterals(input, 1).ok
    /\ Len(result.val) >= 3
    /\ \E i \in 1..Len(input) : input[i] = "\\"
    /\ \E i \in 1..Len(input) : Width(input[i]) = 2

---------------------------------------------------------------------------
(* The parser.  pos counts from 0 as in the source: the current token is   *)
(* the (pos + 1)-th of the vector.  A parse_* operator returns             *)
(* [tag, val, pos]: Ok(Spanned<Expr>) or Err(ParseError), and the cursor   *)
(* it leaves.                                                              *)

\* From<Span> for SourceSpan: (offset, length).
SourceSpan(sp) == [offset |-> sp.start, length |-> sp.end - sp.start]

Literal(k, v) == [node |-> "Literal", lit |-> [kind |-> k, val |-> v]]
Local(s) == [node |-> "Local", name |-> s]
Unary(op, e) == [node |-> "Unary", op |-> op, expr |-> e]
Borrow(op, e) == [node |-> "Borrow", op |-> op, expr |-> e]

POk(e, p) == [tag |-> "ok", val |-> e, pos |-> p]
PErr(e, p) == [tag |-> "err", val |-> e, pos |-> p]

\* Parser::current and Parser::peek.
current(toks, p) == toks[p + 1]
peek_token(toks, p) == current(toks, p).inner

\* A faulty variant: the cursor moves on whatever its position.
advanceUnclamped(toks, p) ==
    [tok |-> current(toks, p), pos |-> p + 1]

\* Parser::advance: the current token, and the cursor moved on unless it is
\* on the last token.
advance(toks, p) ==
    [tok |-> current(toks, p),
     pos |-> IF p < Len(toks) - 1 THEN p + 1 ELSE p]

\* Parser::expect.
expect(toks, p, expected) ==
    LET c == current(toks, p)
    IN  IF c.inner = expected
        THEN [tag |-> "ok", val |-> advance(toks, p).tok, pos |-> advance(toks, p).pos]
        ELSE PErr([kind |-> "UnexpectedToken", expected |-> expected,
                   found |-> c.inner, span |-> SourceSpan(c.span)], p)

\* Parser::parse_type.
parse_type(toks, p) ==
    LET a == advance(toks, p)
        k == a.tok.inner.kind
    IN  CASE k = "KwInt"  -> POk(Spanned("Int", a.tok.span), a.pos)
          [] k = "KwUnit" -> POk(Spanned("Unit", a.tok.span), a.pos)
          [] k = "KwReal" -> POk(Spanned("Real", a.tok.span), a.pos)
          [] k = "KwChar" -> POk(Spanned("Char", a.tok.span), a.pos)
          [] OTHER -> PErr([kind |-> "ExpectedType", found |-> a.tok.inner,
                            span |-> SourceSpan(a.tok.span)], a.pos)

\* Parser::binary: the node over left and right, spanning both.
binary(left, op, op_span, right) ==
    Spanned([node |-> "Binary", left |-> left, right |-> right,
             op |-> Spanned(op, op_span)],
            merge(left.span, right.span))

\* The operator each loop takes a token for ("" for none): the match in
\* parse_multiplicative, parse_additive, parse_comparison, and the while-let
\* patterns of parse_and_op and parse_or_op.
MultiplicativeOp(tok) ==
    CASE tok.kind = "Star" -> "Mul" [] tok.kind = "KwDiv" -> "Div"
      [] tok.kind = "KwMod" -> "Rem" [] OTHER -> ""

AdditiveOp(tok) ==
    CASE tok.kind = "Plus" -> "And" [] tok.kind = "Minus" -> "Sub"
      [] OTHER -> ""

ComparisonOp(tok) ==
    CASE tok.kind = "Gt" -> "Greater" [] tok.kind = "GtEq" -> "GreaterEq"
      [] tok.kind = "Less" -> "Less" [] tok.kind = "LessEq" -> "LessEq"
      [] tok.kind = "NotEq" -> "NotEq" [] tok.kind = "Eq" -> "Eq"
      [] OTHER -> ""

AndOp(tok) == IF tok.kind = "AndAnd" THEN "And" ELSE ""

OrOp(tok) == IF tok.kind = "Or" THEN "Or" ELSE ""

\* The literal and identifier arms of parse_primary's match ("" for a token
\* they do not take).
PrimaryLeaf(tok) ==
    CASE tok.kind = "Int"   -> Literal("Int", tok.val)
      [] tok.kind = "Real"  -> Literal("Real", tok.val)
      [] tok.kind = "Char"  -> Literal("Char", tok.val)
      [] tok.kind = "Ident" -> Local(tok.val)
      [] OTHER -> ""

RECURSIVE parse_primary(_, _), parse_unary(_, _),
          MultiplicativeLoop(_, _, _), parse_multiplicative(_, _),
          AdditiveLoop(_, _, _), parse_additive(_, _),
          ComparisonLoop(_, _, _), parse_comparison(_, _),
          AndLoop(_, _, _), parse_and_op(_, _),
          OrLoop(_, _, _), parse_or_op(_, _), parse_expr(_, _)

\* A faulty variant: the parentheses leave the span of the inner expression
\* as it was.
PrimaryCloseKeepsSpan(toks, span, e) ==
    IF e.tag = "err" THEN e
    ELSE IF peek_token(toks, e.pos).kind = "RParen"
    THEN POk(e.val, advance(toks, e.pos).pos)
    ELSE PErr([kind |-> "ExpectedDelimiter",
               opened |-> Tok("LParen"), expected |-> Tok("RParen"),
               open_span |-> SourceSpan(span),
               end_span |-> SourceSpan(e.val.span)], e.pos)

\* A faulty variant: a missing ')' is let through.
PrimaryCloseLenient(toks, span, e) ==
    IF e.tag = "err" THEN e
    ELSE LET r == advance(toks, e.pos)
         IN  POk(Spanned(e.val.inner,
                         merge(merge(span, e.val.span), r.tok.span)),
                 r.pos)

\* parse_primary after `let expr = self.parse_expr()?` of the LParen arm:
\* e is what parse_expr returned, span the span of the opening parenthesis.
PrimaryClose(toks, span, e) ==
    IF e.tag = "err" THEN e
    ELSE IF peek_token(toks, e.pos).kind = "RParen"
    THEN LET r == advance(toks, e.pos)
         IN  POk(Spanned(e.val.inner,
                         merge(merge(span, e.val.span), r.tok.span)),
                 r.pos)
    ELSE PErr([kind |-> "ExpectedDelimiter",
               opened |-> Tok("LParen"), expected |-> Tok("RParen"),
               open_span |-> SourceSpan(span),
               end_span |-> SourceSpan(e.val.span)], e.pos)

parse_primary(toks, p) ==
    LET a    == advance(toks, p)
        tok  == a.tok.inner
        span == a.tok.span
    IN  IF tok.kind \in {"Int", "Real", "Char", "Ident"}
            THEN POk(Spanned(PrimaryLeaf(tok), span), a.pos)
        ELSE IF tok.kind = "LParen" THEN
            IF peek_token(toks, a.pos) = Tok("RParen")
            THEN LET r == advance(toks, a.pos)
                 IN  POk(Spanned(Literal("Unit", <<>>), merge(span, r.tok.span)), r.pos)
            ELSE PrimaryClose(toks, span, parse_expr(toks, a.pos))
        ELSE PErr([kind |-> "ExpectedPrimary", span |-> SourceSpan(span)], a.pos)

\* parse_unary after `let expr = self.parse_unary()?`: the node of the
\* operator op (a Unary for Not and Neg, a Borrow for Ref and RefMut) over
\* the operand e, or e's error.
UnaryOver(op, e) ==
    IF e.tag = "err" THEN e
    ELSE POk(Spanned(IF op.inner \in {"Ref", "RefMut"}
                         THEN Borrow(op, e.val) ELSE Unary(op, e.val),
                     merge(op.span, e.val.span)), e.pos)

parse_unary(toks, p) ==
    LET k == peek_token(toks, p).kind
    IN  IF k \in {"KwNot", "Tilde"} THEN
            LET op == IF k = "KwNot" THEN "Not" ELSE "Neg"
                a  == advance(toks, p)
            IN  UnaryOver(Spanned(op, a.tok.span), parse_unary(toks, a.pos))
        ELSE IF k = "And" THEN
            LET a  == advance(toks, p)
                m  == peek_token(toks, a.pos) = Tok("KwMut")
                a2 == IF m THEN advance(toks, a.pos) ELSE a
                op == IF m THEN Spanned("RefMut", merge(a.tok.span, a2.tok.span))
                           ELSE Spanned("Ref", a.tok.span)
            IN  UnaryOver(op, parse_unary(toks, a2.pos))
        ELSE parse_primary(toks, p)

\* parse_multiplicative: the loop from cursor p with the tree built so far;
\* MultiplicativeRight and MultiplicativeLeft are the loop and the function after the `?` on
\* the operand just parsed (r, l).
MultiplicativeRight(toks, left, op, op_span, r) ==
    IF r.tag = "err" THEN r
    ELSE MultiplicativeLoop(toks, r.pos, binary(left, op, op_span, r.val))

MultiplicativeLoop(toks, p, left) ==
    LET op == MultiplicativeOp(peek_token(toks, p))
        a  == advance(toks, p)
    IN  IF op = "" THEN POk(left, p)
        ELSE MultiplicativeRight(toks, left, op, a.tok.span, parse_unary(toks, a.pos))

MultiplicativeLeft(toks, l) ==
    IF l.tag = "err" THEN l ELSE MultiplicativeLoop(toks, l.pos, l.val)

parse_multiplicative(toks, p) == MultiplicativeLeft(toks, parse_unary(toks, p))

\* parse_additive: the loop from cursor p with the tree built so far;
\* AdditiveRight and AdditiveLeft are the loop and the function after the `?` on
\* the operand just parsed (r, l).
AdditiveRight(toks, left, op, op_span, r) ==
    IF r.tag = "err" THEN r
    ELSE AdditiveLoop(toks, r.pos, binary(left, op, op_span, r.val))

AdditiveLoop(toks, p, left) ==
    LET op == AdditiveOp(peek_token(toks, p))
        a  == advance(toks, p)
    IN  IF op = "" THEN POk(left, p)
        ELSE AdditiveRight(toks, left, op, a.tok.span, parse_multiplicative(toks, a.pos))

AdditiveLeft(toks, l) ==
    IF l.tag = "err" THEN l ELSE AdditiveLoop(toks, l.pos, l.val)

parse_additive(toks, p) == AdditiveLeft(toks, parse_multiplicative(toks, p))

\* parse_comparison: the loop from cursor p with the tree built so far;
\* ComparisonRight and ComparisonLeft are the loop and the function after the `?` on
\* the operand just parsed (r, l).
ComparisonRight(toks, left, op, op_span, r) ==
    IF r.tag = "err" THEN r
    ELSE ComparisonLoop(toks, r.pos, binary(left, op, op_span, r.val))

ComparisonLoop(toks, p, left) ==
    LET op == ComparisonOp(peek_token(toks, p))
        a  == advance(toks, p)
    IN  IF op = "" THEN POk(left, p)
        ELSE ComparisonRight(toks, left, op, a.tok.span, parse_additive(toks, a.pos))

ComparisonLeft(toks, l) ==
    IF l.tag = "err" THEN l ELSE ComparisonLoop(toks, l.pos, l.val)

parse_comparison(toks, p) == ComparisonLeft(toks, parse_additive(toks, p))

\* parse_and_op: the loop from cursor p with the tree built so far;
\* AndRight and AndLeft are the loop and the function after the `?` on
\* the operand just parsed (r, l).
AndRight(toks, left, op, op_span, r) ==
    IF r.tag = "err" THEN r
    ELSE AndLoop(toks, r.pos, binary(left, op, op_span, r.val))

AndLoop(toks, p, left) ==
    LET op == AndOp(peek_token(toks, p))
        a  == advance(toks, p)
    IN  IF op = "" THEN POk(left, p)
        ELSE AndRight(toks, left, op, a.tok.span, parse_comparison(toks, a.pos))

AndLeft(toks, l) ==
    IF l.tag = "err" THEN l ELSE AndLoop(toks, l.pos, l.val)

parse_and_op(toks, p) == AndLeft(toks, parse_comparison(toks, p))

\* parse_or_op: the loop from cursor p with the tree built so far;
\* OrRight and OrLeft are the loop and the function after the `?` on
\* the operand just parsed (r, l).
OrRight(toks, left, op, op_span, r) ==
    IF r.tag = "err" THEN r
    ELSE OrLoop(toks, r.pos, binary(left, op, op_span, r.val))

OrLoop(toks, p, left) ==
    LET op == OrOp(peek_token(toks, p))
        a  == advance(toks, p)
    IN  IF op = "" THEN POk(left, p)
        ELSE OrRight(toks, left, op, a.tok.span, parse_and_op(toks, a.pos))

OrLeft(toks, l) ==
    IF l.tag = "err" THEN l ELSE OrLoop(toks, l.pos, l.val)

parse_or_op(toks, p) == OrLeft(toks, parse_and_op(toks, p))

parse_expr(toks, p) == parse_or_op(toks, p)

parse_code(toks, p) == parse_or_op(toks, p)

---------------------------------------------------------------------------
(* The parser as a state machine: a Parser over a token vector, and the    *)
(* calls made on it.  p_result records the last call, the cursor it        *)
(* started from and what it returned.                                      *)

LexerIdle ==
    /\ input = <<>>
    /\ idx = 0
    /\ current_pos = 0
    /\ tokens = <<>>
    /\ errors = <<>>
    /\ pc = "idle"
    /\ result = NoResult

\* Parser::new.
ParserNew(toks) ==
    /\ p_tokens = toks
    /\ pos = 0
    /\ len = Len(toks)
    /\ p_result = NoCall

Called(name, r) == [call |-> name, at |-> pos, tag |-> r.tag, val |-> r.val]

\* A call returns r: the cursor it leaves and the record of the call.
Returns(name, r) ==
    /\ pos' = r.pos
    /\ p_result' = Called(name, r)

Advance ==
    /\ LET a == advance(p_tokens, pos)
       IN  /\ pos' = a.pos
           /\ p_result' = Called("advance", [tag |-> "ok", val |-> a.tok])
    /\ UNCHANGED <<p_tokens, len, lexvars>>

\* The tokens a caller may expect.
Expectable == {Tok("RParen"), Tok("Eof")}

Expect ==
    /\ \E t \in Expectable :
           LET r == expect(p_tokens, pos, t)
           IN  /\ pos' = r.pos
               /\ p_result' = Called("expect", r)
    /\ UNCHANGED <<p_tokens, len, lexvars>>

ParseType ==
    /\ Returns("parse_type", parse_type(p_tokens, pos))
    /\ UNCHANGED <<p_tokens, len, lexvars>>

ParsePrimary ==
    /\ Returns("parse_primary", parse_primary(p_tokens, pos))
    /\ UNCHANGED <<p_tokens, len, lexvars>>

ParseUnary ==
    /\ Returns("parse_unary", parse_unary(p_tokens, pos))
    /\ UNCHANGED <<p_tokens, len, lexvars>>

ParseCode ==
    /\ Returns("parse_code", parse_code(p_tokens, pos))
    /\ UNCHANGED <<p_tokens, len, lexvars>>

NextParser ==
    Advance \/ Expect \/ ParseType \/ ParsePrimary \/ ParseUnary \/ ParseCode

---------------------------------------------------------------------------
(* Token vectors.  Parser::new is public and takes the vector its caller   *)
(* gives it.  The calls above index the vector at the cursor and rely on a *)
(* last Eof to stop, so a vector ends with Eof.  Two kinds of vector are   *)
(* given: one a caller builds, of any tokens, each spanning the bytes its  *)
(* text takes in a source (Layout); and the one Lexer::tokenize returns    *)
(* for that source (Lexed), which holds other tokens wherever a number or  *)
(* a word does not stand at offset 0 (lex_number and lex_ident slice from  *)
(* the character before it), or no tokens at all.                          *)

DigitChar(d) == <<"0", "1", "2", "3", "4", "5", "6", "7", "8", "9">>[d + 1]

RECURSIVE DigitsOf(_, _)
\* n written with w decimal digits.
DigitsOf(n, w) ==
    IF w = 0 THEN <<>> ELSE DigitsOf(n \div 10, w - 1) \o <<DigitChar(n % 10)>>

\* The texts that tokenize's match, lex_less, lex_gt, lex_and, lex_or and
\* classify_ident turn into the tokens without payload used below.
Spelling ==
    [LParen |-> <<"(">>, RParen |-> <<")">>, Tilde |-> <<"~">>,
     Eq |-> <<"=">>, Plus |-> <<"+">>, Minus |-> <<"-">>, Star |-> <<"*">>,
     NotEq |-> <<"<", ">">>, LessEq |-> <<"<", "=">>, Less |-> <<"<">>,
     GtEq |-> <<">", "=">>, Gt |-> <<">">>,
     AndAnd |-> <<"&", "&">>, And |-> <<"&">>, Or |-> <<"|", "|">>,
     KwInt |-> <<"i", "n", "t">>, KwMut |-> <<"m", "u", "t">>,
     KwMod |-> <<"m", "o", "d">>, KwDiv |-> <<"d", "i", "v">>]

\* A text that, alone in a source, is lexed to the token t: an integer in
\* decimal, a real (one with a fraction) as integer part, point and
\* fraction, a character between quotes.
Lexeme(t) ==
    CASE t.kind = "Int"   -> DigitsOf(t.val, NumDigits(t.val))
      [] t.kind = "Real"  ->
             DigitsOf(t.val.mant \div Pow10(0 - t.val.exp),
                      NumDigits(t.val.mant \div Pow10(0 - t.val.exp)))
                 \o <<".">> \o DigitsOf(t.val.mant % Pow10(0 - t.val.exp), 0 - t.val.exp)
      [] t.kind = "Bool"  -> IF t.val THEN <<"t", "r", "u", "e">>
                             ELSE <<"f", "a", "l", "s", "e">>
      [] t.kind = "Char"  -> <<"'", t.val, "'">>
      [] t.kind = "Ident" -> t.val
      [] OTHER            -> Spelling[t.kind]

\* gap blanks.
BlanksOf(gap) == [i \in 1..gap |-> " "]

\* The source made of the texts of ts, with gap blanks before each of them
\* and at the end.
TextOf(ts, gap) ==
    Flatten([i \in 1..Len(ts) |-> BlanksOf(gap) \o Lexeme(ts[i])]) \o BlanksOf(gap)

RECURSIVE LayoutFrom(_, _, _, _)
\* The tokens of ts from the i-th on, the text before the blanks of the
\* i-th being off bytes long.
LayoutFrom(ts, gap, i, off) ==
    IF i > Len(ts) THEN <<Spanned(Tok("Eof"), Span(off + gap, off + gap))>>
    ELSE <<Spanned(ts[i], Span(off + gap, off + gap + ByteLen(Lexeme(ts[i]))))>>
             \o LayoutFrom(ts, gap, i + 1, off + gap + ByteLen(Lexeme(ts[i])))

\* The vector a caller builds of the tokens ts: each with the span of its
\* text in TextOf(ts, gap), Eof with the empty span at the length of that
\* source.
Layout(ts, gap) == LayoutFrom(ts, gap, 1, 0)

\* The texts written without blanks.
WithSpans(ts) == Layout(ts, 0)

\* What tokenize returns for that source.
Lexed(ts, gap) == tokenize(TextOf(ts, gap))

\* Parser::new on the vector built of ts, or on the vector tokenize returns
\* for its source, when it returns one.
ParserOn(ts, gap) ==
    \/ \E v \in {Layout(ts, gap)} : ParserNew(v)
    \/ \E r \in {Lexed(ts, gap)} : r.tag = "Ok" /\ ParserNew(r.val)

\* No blank, or a blank before every token and at the end.
Gaps == {0, 1}

\* 2.5 as an f64.
TwoPointFive == [cls |-> "finite", neg |-> FALSE, mant |-> 25, exp |-> -1]

\* Every vector of at most MaxToks tokens over ParseAlphabet, then Eof, and
\* what tokenize returns for its source.
MaxToks == 3
ParseAlphabet ==
    {TokInt(1), TokReal(TwoPointFive), TokChar("a"), TokBool(TRUE),
     TokIdent(<<"x">>), Tok("LParen"), Tok("RParen"), Tok("Minus"),
     Tok("Tilde"), Tok("And"), Tok("KwMut"), Tok("KwInt")}

InitParse ==
    /\ \E ts \in SeqsUpTo(ParseAlphabet, MaxToks), gap \in Gaps : ParserOn(ts, gap)
    /\ LexerIdle

SpecParse == InitParse /\ [][NextParser]_vars

\* The binary operator tokens, by grammar level, loosest first.
OpLevels ==
    <<{Tok("Or")},
      {Tok("AndAnd")},
      {Tok("Eq"), Tok("NotEq"), Tok("Less"), Tok("LessEq"), Tok("Gt"), Tok("GtEq")},
      {Tok("Plus"), Tok("Minus")},
      {Tok("Star"), Tok("KwDiv"), Tok("KwMod")}>>

BinaryOpTokens == UNION {OpLevels[l] : l \in 1..Len(OpLevels)}

OperandNames == <<"a", "b", "c", "d", "e", "f">>

\* The primaries that may stand as the i-th operand of a chain: an
\* identifier, an integer, a boolean, the unit literal.
OperandChoices == 1..4
Operand(i, k) ==
    CASE k = 1 -> <<TokIdent(<<OperandNames[i]>>)>>
      [] k = 2 -> <<TokInt(i)>>
      [] k = 3 -> <<TokBool(TRUE)>>
      [] k = 4 -> <<Tok("LParen"), Tok("RParen")>>

\* x1 o1 x2 o2 ... xn
ChainTokens(xs, os) ==
    xs[1] \o Flatten([i \in 1..Len(os) |-> <<os[i]>> \o xs[i + 1]])

\* Chains of up to three operands, with any operands and any operators.
MixedChains ==
    UNION {{ChainTokens([i \in 1..n |-> Operand(i, ks[i])], os) :
                ks \in [1..n -> OperandChoices], os \in [1..(n - 1) -> BinaryOpTokens]} :
           n \in 1..3}

\* Longer chains, up to MaxChain operands: identifiers joined by operators of
\* one level.
MaxChain == 4
LevelChains ==
    UNION {{ChainTokens([i \in 1..n |-> Operand(i, 1)], os) :
                os \in UNION {[1..(n - 1) -> OpLevels[l]] : l \in 1..Len(OpLevels)}} :
           n \in 4..MaxChain}

InitChain ==
    /\ \E ts \in MixedChains \cup LevelChains : ParserOn(ts, 0)
    /\ LexerIdle

SpecChain == InitChain /\ [][NextParser]_vars

\* Every vector of at most MaxExpr tokens over ExprAlphabet, then Eof: a
\* primary (of two bytes), parentheses, the borrow operator and the
\* operator that is both unary and binary; and what tokenize returns for its
\* source.  The sources written with blanks are one token shorter.
MaxExpr == 6
ExprAlphabet ==
    {TokIdent(<<"a", "b">>), Tok("LParen"), Tok("RParen"), Tok("Minus"),
     Tok("And")}

InitExpr ==
    /\ \E gap \in Gaps : \E ts \in SeqsUpTo(ExprAlphabet, MaxExpr - gap) :
           ParserOn(ts, gap)
    /\ LexerIdle

\* parse_code, called on a parser just built.
ParseCodeAtStart == p_result = NoCall /\ ParseCode

NextExpr == ParseCodeAtStart

SpecExpr == InitExpr /\ [][NextExpr]_vars

\* The lexer on a text, or the parser on a token vector.
InitRun == Init \/ InitParse

\* A Parser has been built (over a vector that is not empty).
ParserBuilt == len > 0

NextRun == Next \/ (ParserBuilt /\ NextParser)

SpecRun == InitRun /\ [][NextRun]_vars

---------------------------------------------------------------------------
(* Properties of the parser *)

LeafKinds == {"Int", "Real", "Char", "Bool", "Ident"}

\* The expression a literal or identifier token stands for.
LeafExpr(tok) ==
    CASE tok.kind = "Int"   -> [node |-> "Literal", lit |-> [kind |-> "Int", val |-> tok.val]]
      [] tok.kind = "Real"  -> [node |-> "Literal", lit |-> [kind |-> "Real", val |-> tok.val]]
      [] tok.kind = "Char"  -> [node |-> "Literal", lit |-> [kind |-> "Char", val |-> tok.val]]
      [] tok.kind = "Bool"  -> [node |-> "Literal", lit |-> [kind |-> "Bool", val |-> tok.val]]
      [] tok.kind = "Ident" -> [node |-> "Local", name |-> tok.val]

\* The parser was asked for a primary with the cursor on a literal or
\* identifier token.
PrimaryCallOnLeaf ==
    /\ p_result.call = "parse_primary"
    /\ p_tokens[p_result.at + 1].inner.kind \in LeafKinds

\* C8: in primary position each literal or identifier token is mapped to its
\* expression (Int(n) to Literal::Int(n), Real(x) to Literal::Real(x),
\* Char(c) to Literal::Char(c), Bool(b) to Literal::Bool(b), Ident(s) to
\* Local(Ident(s))) with the span of the token, and parse_primary does not
\* fail on any of these five kinds of token.
PrimaryMapsLeafTokens ==
    PrimaryCallOnLeaf =>
        LET t == p_tokens[p_result.at + 1]
        IN  /\ p_result.tag = "ok"
            /\ p_result.val = Spanned(LeafExpr(t.inner), t.span)

\* The level of a binary operator token (1 loosest .. 5 tightest), 0 for any
\* other token.
LevelOf(tok) ==
    IF \E l \in 1..Len(OpLevels) : tok \in OpLevels[l]
    THEN CHOOSE l \in 1..Len(OpLevels) : tok \in OpLevels[l]
    ELSE 0

\* The operator of each operator token ('+' has none in the language).
OperatorOf(tok) ==
    CASE tok.kind = "Or" -> "Or" [] tok.kind = "AndAnd" -> "And"
      [] tok.kind = "Eq" -> "Eq" [] tok.kind = "NotEq" -> "NotEq"
      [] tok.kind = "Less" -> "Less" [] tok.kind = "LessEq" -> "LessEq"
      [] tok.kind = "Gt" -> "Greater" [] tok.kind = "GtEq" -> "GreaterEq"
      [] tok.kind = "Minus" -> "Sub" [] tok.kind = "Star" -> "Mul"
      [] tok.kind = "KwDiv" -> "Div" [] tok.kind = "KwMod" -> "Rem"
      [] OTHER -> "none"

RECURSIVE ReadChain(_, _)
\* Reads toks from the i-th token on as primary (operator primary)* Eof,
\* the primaries being literal or identifier tokens or '(' ')':
\* [ok, xs: the expressions of the primaries, os: the operator tokens].
ReadChain(toks, i) ==
    LET bad  == [ok |-> FALSE, xs |-> <<>>, os |-> <<>>]
        leaf == i <= Len(toks) /\ toks[i].inner.kind \in LeafKinds
        unit == /\ i + 1 <= Len(toks)
                /\ toks[i].inner.kind = "LParen"
                /\ toks[i + 1].inner.kind = "RParen"
        x    == IF leaf THEN Spanned(LeafExpr(toks[i].inner), toks[i].span)
                ELSE Spanned([node |-> "Literal", lit |-> [kind |-> "Unit", val |-> <<>>]],
                             Span(toks[i].span.start, toks[i + 1].span.end))
        next == IF leaf THEN i + 1 ELSE i + 2
    IN  IF ~(leaf \/ unit) \/ next > Len(toks) THEN bad
        ELSE IF next = Len(toks) /\ toks[next].inner.kind = "Eof"
            THEN [ok |-> TRUE, xs |-> <<x>>, os |-> <<>>]
        ELSE IF LevelOf(toks[next].inner) = 0 THEN bad
        ELSE LET rest == ReadChain(toks, next + 1)
             IN  [ok |-> rest.ok, xs |-> <<x>> \o rest.xs,
                  os |-> <<toks[next]>> \o rest.os]

IsBinaryOf(e, tok) ==
    /\ e.inner.node = "Binary"
    /\ e.inner.op.inner = OperatorOf(tok.inner)
    /\ e.inner.op.span = tok.span

\* The precedence law on the chain a o1 b o2 c that the parsed vector is,
\* for operands out of `kinds`.
PrecedenceLawOn(kinds) ==
    LET ch == ReadChain(p_tokens, 1)
    IN  (/\ p_result.call = "parse_code" /\ p_result.at = 0
         /\ ch.ok /\ Len(ch.xs) = 3
         /\ \A i \in 1..Len(p_tokens) : p_tokens[i].inner.kind \in LeafKinds
                                          => p_tokens[i].inner.kind \in kinds
         /\ \A i \in 1..2 : ch.os[i].inner.kind # "Plus"
         /\ LevelOf(ch.os[1].inner) # LevelOf(ch.os[2].inner))
        => /\ p_result.tag = "ok"
           /\ LET root == p_result.val
              IN  IF LevelOf(ch.os[1].inner) > LevelOf(ch.os[2].inner)
                  THEN /\ IsBinaryOf(root, ch.os[2])
                       /\ IsBinaryOf(root.inner.left, ch.os[1])
                       /\ root.inner.left.inner.left = ch.xs[1]
                       /\ root.inner.left.inner.right = ch.xs[2]
                       /\ root.inner.right = ch.xs[3]
                  ELSE /\ IsBinaryOf(root, ch.os[1])
                       /\ IsBinaryOf(root.inner.right, ch.os[2])
                       /\ root.inner.right.inner.left = ch.xs[2]
                       /\ root.inner.right.inner.right = ch.xs[3]
                       /\ root.inner.left = ch.xs[1]

\* C9 (precedence law): for a token stream a op1 b op2 c Eof with a, b, c
\* primaries and op1 on a strictly tighter level than op2 (levels, loosest
\* first: ||, &&, comparison, additive -, multiplicative), parse_code
\* returns the Binary node of op2 whose left child is the Binary node of op1
\* over a and b; symmetrically a op2 b op1 c has root op2 with the op1 node
\* (over b and c) as its right child.
PrecedenceLaw == PrecedenceLawOn(LeafKinds)

\* The same law where no operand is a Bool token.
PrecedenceLawWithoutBool == PrecedenceLawOn(LeafKinds \ {"Bool"})

RECURSIVE IsLeftLeaning(_, _, _)
\* e is the left-leaning tree of the first k operands of the chain ch.
IsLeftLeaning(e, ch, k) ==
    IF k = 1 THEN e = ch.xs[1]
    ELSE /\ e.inner.node = "Binary"
         /\ e.inner.op.span = ch.os[k - 1].span
         /\ ch.os[k - 1].inner.kind # "Plus"
                => e.inner.op.inner = OperatorOf(ch.os[k - 1].inner)
         /\ e.inner.right = ch.xs[k]
         /\ IsLeftLeaning(e.inner.left, ch, k - 1)

\* The associativity law on the chain that the parsed vector is, for
\* operands out of `kinds`.
AssociativityLawOn(kinds) ==
    LET ch == ReadChain(p_tokens, 1)
    IN  (/\ p_result.call = "parse_code" /\ p_result.at = 0
         /\ ch.ok /\ Len(ch.xs) >= 2
         /\ \A i \in 1..Len(p_tokens) : p_tokens[i].inner.kind \in LeafKinds
                                          => p_tokens[i].inner.kind \in kinds
         /\ \A i \in 1..Len(ch.os) :
                LevelOf(ch.os[i].inner) = LevelOf(ch.os[1].inner))
        => /\ p_result.tag = "ok"
           /\ IsLeftLeaning(p_result.val, ch, Len(ch.xs))

\* C10 (associativity law): for every binary operator level, a chain
\* x1 op x2 op ... op xn of operators of that one level parses to a
\* left-leaning tree: the root's right child is the primary xn and its left
\* child is the tree of x1 op ... op x(n-1); so a - b - c is (a - b) - c.
AssociativityLaw == AssociativityLawOn(LeafKinds)

\* The same law where no operand is a Bool token.
AssociativityLawWithoutBool == AssociativityLawOn(LeafKinds \ {"Bool"})

RECURSIVE Nodes(_)
\* The nodes of the tree e, root first.
Nodes(e) ==
    <<e>> \o (CASE e.inner.node = "Binary" ->
                      Nodes(e.inner.left) \o Nodes(e.inner.right)
                 [] e.inner.node \in {"Unary", "Borrow"} -> Nodes(e.inner.expr)
                 [] OTHER -> <<>>)

IsCompound(n) == n.inner.node \in {"Binary", "Unary", "Borrow"}

\* The join of the spans of the immediate children of a compound node.
ChildrenJoin(n) ==
    IF n.inner.node = "Binary"
    THEN Span(IF n.inner.left.span.start < n.inner.right.span.start
                  THEN n.inner.left.span.start ELSE n.inner.right.span.start,
              IF n.inner.left.span.end > n.inner.right.span.end
                  THEN n.inner.left.span.end ELSE n.inner.right.span.end)
    ELSE Span(IF n.inner.op.span.start < n.inner.expr.span.start
                  THEN n.inner.op.span.start ELSE n.inner.expr.span.start,
              IF n.inner.op.span.end > n.inner.expr.span.end
                  THEN n.inner.op.span.end ELSE n.inner.expr.span.end)

\* parse_code, called at the start of the vector, returned a tree.
CodeReturnedTree ==
    /\ p_result.call = "parse_code"
    /\ p_result.at = 0
    /\ p_result.tag = "ok"

\* C11: in every tree parse_code returns, the span of every Binary, Unary
\* and Borrow node is the join of the spans of its immediate children,
\* parenthesised nodes included.
CompoundSpanIsChildrenJoin ==
    CodeReturnedTree =>
        LET ns == Nodes(p_result.val)
        IN  \A i \in 1..Len(ns) :
                IsCompound(ns[i]) => ns[i].span = ChildrenJoin(ns[i])

\* The tokens of p_tokens that start at byte s and that end at byte e.
StartsAt(s) == {i \in 1..Len(p_tokens) : p_tokens[i].span.start = s
                                           /\ p_tokens[i].span.end > s}
EndsAt(e) == {i \in 1..Len(p_tokens) : p_tokens[i].span.end = e
                                         /\ p_tokens[i].span.start < e}

\* The pairs of parentheses that enclose the tokens first..last directly
\* number k: the k tokens before them are '(' and the k after them ')', and
\* no more than k are.
EnclosedBy(first, last, k) ==
    /\ first - k >= 1 /\ last + k <= Len(p_tokens)
    /\ \A d \in 1..k : /\ p_tokens[first - d].inner.kind = "LParen"
                       /\ p_tokens[last + d].inner.kind = "RParen"
    /\ ~ /\ first - k - 1 >= 1 /\ last + k + 1 <= Len(p_tokens)
         /\ p_tokens[first - k - 1].inner.kind = "LParen"
         /\ p_tokens[last + k + 1].inner.kind = "RParen"

\* sp is the span j widened by the parentheses that enclose it directly: j
\* itself when there are none, and otherwise (and only then) the span from
\* the outermost of those '(' through the outermost of those ')'.
WidenedByParens(sp, j) ==
    \E first \in StartsAt(j.start), last \in EndsAt(j.end), k \in 0..Len(p_tokens) :
        /\ EnclosedBy(first, last, k)
        /\ sp = Span(p_tokens[first - k].span.start, p_tokens[last + k].span.end)
        /\ (sp = j) <=> (k = 0)

\* The span j lies directly inside two pairs of parentheses or more.
DoublyEnclosed(j) ==
    \E first \in StartsAt(j.start), last \in EndsAt(j.end), k \in 2..Len(p_tokens) :
        EnclosedBy(first, last, k)

\* C11, amended: in every tree parse_code returns, the span of every Binary,
\* Unary and Borrow node is the join of the spans of its immediate children
\* when the node is not written directly inside parentheses, and otherwise
\* runs from the outermost '(' through the outermost ')' of the parentheses
\* that enclose the node directly (and is then not that join).
CompoundSpanIsJoinOrParens ==
    CodeReturnedTree =>
        LET ns == Nodes(p_result.val)
        IN  \A i \in 1..Len(ns) :
                IsCompound(ns[i]) =>
                    WidenedByParens(ns[i].span, ChildrenJoin(ns[i]))

\* A returned tree with a compound node written inside two pairs of
\* parentheses, whose span runs from the outer '(' through the outer ')'.
CompoundSpanWitness ==
    /\ CodeReturnedTree
    /\ LET ns == Nodes(p_result.val)
       IN  \E i \in 1..Len(ns) :
               /\ IsCompound(ns[i])
               /\ DoublyEnclosed(ChildrenJoin(ns[i]))
               /\ ns[i].span # ChildrenJoin(ns[i])

\* C12: on a non-empty vector ending in Eof the cursor stays within
\* 0 <= pos < len whatever is called; advance returns the token under the
\* cursor and moves the cursor on by one only when pos < len - 1, so at
\* pos = len - 1 it leaves the cursor where it is and returns Eof.
CursorStaysInRange ==
    /\ 0 <= pos /\ pos < len
    /\ len = Len(p_tokens)
    /\ p_result.call = "advance" =>
           /\ p_result.val = p_tokens[p_result.at + 1]
           /\ pos = IF p_result.at < len - 1 THEN p_result.at + 1 ELSE p_result.at
           /\ p_result.at = len - 1 =>
                  /\ pos = len - 1
                  /\ p_result.val.inner = Tok("Eof")

\* advance was called with the cursor already on the final Eof of a vector
\* that has other tokens.
CursorWitness ==
    /\ p_result.call = "advance"
    /\ len > 1
    /\ p_result.at = len - 1
    /\ pos = len - 1

\* The calls that parse an expression.
ExprCalls == {"parse_primary", "parse_unary", "parse_code"}

\* At cursor p there is a '(' not followed by ')', the expression after it
\* parses, and no ')' follows that expression.
UnclosedParenAt(p) ==
    /\ p_tokens[p + 1].inner.kind = "LParen"
    /\ p_tokens[p + 2].inner.kind # "RParen"
    /\ LET e == parse_expr(p_tokens, p + 1)
       IN  /\ e.tag = "ok"
           /\ p_tokens[e.pos + 1].inner.kind # "RParen"

\* C13: a '(' that is not followed by ')', with an inner expression that
\* parses and no ')' after it, makes the parse fail with ExpectedDelimiter,
\* opened LParen, expected RParen, open_span the span of that '('; no
\* expression is returned.
MissingParenIsExpectedDelimiter ==
    (p_result.call \in ExprCalls /\ UnclosedParenAt(p_result.at)) =>
        /\ p_result.tag = "err"
        /\ p_result.val.kind = "ExpectedDelimiter"
        /\ p_result.val.opened = Tok("LParen")
        /\ p_result.val.expected = Tok("RParen")
        /\ p_result.val.open_span = SourceSpan(p_tokens[p_result.at + 1].span)

\* parse_code met an unclosed '(' around an expression of several tokens.
MissingParenWitness ==
    /\ p_result.call = "parse_code"
    /\ UnclosedParenAt(p_result.at)
    /\ p_result.tag = "err"
    /\ len >= 4

\* C14: an expression asked for with the cursor on Eof is refused with
\* UnexpectedEOF.
EofIsUnexpectedEOF ==
    (p_result.call \in ExprCalls /\ p_tokens[p_result.at + 1].inner.kind = "Eof") =>
        /\ p_result.tag = "err"
        /\ p_result.val.kind = "UnexpectedEOF"

\* Every parse call made has returned, and one that returned an expression
\* started on a token other than Eof and moved the cursor on.
ParseCallsReturn ==
    p_result.call \in ExprCalls =>
        /\ p_result.tag \in {"ok", "err"}
        /\ p_result.tag = "ok" =>
               /\ p_tokens[p_result.at + 1].inner.kind # "Eof"
               /\ pos > p_result.at

\* Each iteration of tokenize's loop consumes at least one character of the
\* text and none beyond its end, so the loop is left after at most
\* Len(input) iterations.
TokenizeConsumes ==
    [][(pc' = "scan" => idx' > idx) /\ idx' <= Len(input)]_lexvars

\* tokenize is never cut short by a panic.
TokenizeNeverPanics == [](pc # "panic")

\* C15: lexer and parser run to completion: tokenize's loop consumes a
\* character or more in each iteration and nothing stops tokenize short of
\* its return, and every parse call on an Eof-terminated vector returns Ok
\* or Err, having consumed a token other than Eof if it returns Ok.
RunsToCompletion ==
    TokenizeNeverPanics /\ TokenizeConsumes /\ []ParseCallsReturn

\* The same without the demand that tokenize never panics: tokenize and the
\* parse calls come to an end.
RunsToAnEnd == TokenizeConsumes /\ []ParseCallsReturn

\* C16: when parse_code returns Ok the cursor is on the final Eof and the
\* returned span runs from the first token through the last one before
\* Eof; a vector with tokens left over after an expression is not accepted.
CodeConsumesAllTokens ==
    CodeReturnedTree =>
        /\ pos = len - 1
        /\ p_result.val.span = Span(p_tokens[1].span.start, p_tokens[len - 1].span.end)

\* C17: the operator of every Binary node parse_code builds is the one of
\* the token at the node's op span: And only from '&&', Or only from '||',
\* Sub only from '-', Mul, Div, Rem only from '*', div, mod, each comparison
\* only from its own token; '+' never gives And.
BinaryOperatorIsItsToken ==
    CodeReturnedTree =>
        LET ns == Nodes(p_result.val)
        IN  \A i \in 1..Len(ns) :
                ns[i].inner.node = "Binary" =>
                    \E j \in 1..Len(p_tokens) :
                        /\ p_tokens[j].span = ns[i].inner.op.span
                        /\ OperatorOf(p_tokens[j].inner) = ns[i].inner.op.inner

\* The same, for vectors without '+'.
BinaryOperatorIsItsTokenWithoutPlus ==
    (\A j \in 1..Len(p_tokens) : p_tokens[j].inner.kind # "Plus")
        => BinaryOperatorIsItsToken

====
